---- MODULE Spec2Model ----
(***************************************************************************)
(* Model of the kana -> romaji transliteration engine (kana_romaji.py).    *)
(*                                                                         *)
(* A character is its Unicode code point (a natural number), a string is a *)
(* sequence of code points, so that ord()/chr() arithmetic, table lookups  *)
(* and pass-through of arbitrary characters are modelled by what they do.  *)
(* One call of kana_to_romaji is one behaviour: the prelude, one action    *)
(* per branch of the scanning loop, and the final join / macron pass.      *)
(***************************************************************************)
EXTENDS Integers, Sequences, FiniteSets, TLC

\* ------------------------------------------------------------------ bounds

\* Longest input string drawn from Alphabet.
MaxLen == 3

\* ------------------------------------------------------- string literals

\* ASCII lowercase letters in code-point order: Letters[k] has code 96 + k.
Letters ==
    << "a", "b", "c", "d", "e", "f", "g", "h", "i", "j", "k", "l", "m",
       "n", "o", "p", "q", "r", "s", "t", "u", "v", "w", "x", "y", "z" >>

\* ord() of the characters the program's literals are written with.
Ord(c) ==
    CASE c = "'" -> 39
      [] c = " " -> 32
      [] c = "a_" -> 257   \* U+0101 a with macron
      [] c = "e_" -> 275   \* U+0113 e with macron
      [] c = "i_" -> 299   \* U+012B i with macron
      [] c = "o_" -> 333   \* U+014D o with macron
      [] c = "u_" -> 363   \* U+016B u with macron
      [] OTHER -> 96 + (CHOOSE k \in 1..Len(Letters) : Letters[k] = c)

\* A string literal of the program, as its sequence of code points.
Rom(lit) == [k \in 1..Len(lit) |-> Ord(lit[k])]

\* ------------------------------------------------------------- the tables

HIRA_DIGRAPHS ==
    (<<12365, 12419>> :> Rom(<<"k", "y", "a">>))  \* U+304D KI + U+3083 SMALL YA
 @@ (<<12365, 12421>> :> Rom(<<"k", "y", "u">>))  \* U+304D KI + U+3085 SMALL YU
 @@ (<<12365, 12423>> :> Rom(<<"k", "y", "o">>))  \* U+304D KI + U+3087 SMALL YO
 @@ (<<12366, 12419>> :> Rom(<<"g", "y", "a">>))  \* U+304E GI + U+3083 SMALL YA
 @@ (<<12366, 12421>> :> Rom(<<"g", "y", "u">>))  \* U+304E GI + U+3085 SMALL YU
 @@ (<<12366, 12423>> :> Rom(<<"g", "y", "o">>))  \* U+304E GI + U+3087 SMALL YO
 @@ (<<12375, 12419>> :> Rom(<<"s", "h", "a">>))  \* U+3057 SI + U+3083 SMALL YA
 @@ (<<12375, 12421>> :> Rom(<<"s", "h", "u">>))  \* U+3057 SI + U+3085 SMALL YU
 @@ (<<12375, 12423>> :> Rom(<<"s", "h", "o">>))  \* U+3057 SI + U+3087 SMALL YO
 @@ (<<12376, 12419>> :> Rom(<<"j", "a">>))  \* U+3058 ZI + U+3083 SMALL YA
 @@ (<<12376, 12421>> :> Rom(<<"j", "u">>))  \* U+3058 ZI + U+3085 SMALL YU
 @@ (<<12376, 12423>> :> Rom(<<"j", "o">>))  \* U+3058 ZI + U+3087 SMALL YO
 @@ (<<12385, 12419>> :> Rom(<<"c", "h", "a">>))  \* U+3061 TI + U+3083 SMALL YA
 @@ (<<12385, 12421>> :> Rom(<<"c", "h", "u">>))  \* U+3061 TI + U+3085 SMALL YU
 @@ (<<12385, 12423>> :> Rom(<<"c", "h", "o">>))  \* U+3061 TI + U+3087 SMALL YO
 @@ (<<12395, 12419>> :> Rom(<<"n", "y", "a">>))  \* U+306B NI + U+3083 SMALL YA
 @@ (<<12395, 12421>> :> Rom(<<"n", "y", "u">>))  \* U+306B NI + U+3085 SMALL YU
 @@ (<<12395, 12423>> :> Rom(<<"n", "y", "o">>))  \* U+306B NI + U+3087 SMALL YO
 @@ (<<12402, 12419>> :> Rom(<<"h", "y", "a">>))  \* U+3072 HI + U+3083 SMALL YA
 @@ (<<12402, 12421>> :> Rom(<<"h", "y", "u">>))  \* U+3072 HI + U+3085 SMALL YU
 @@ (<<12402, 12423>> :> Rom(<<"h", "y", "o">>))  \* U+3072 HI + U+3087 SMALL YO
 @@ (<<12403, 12419>> :> Rom(<<"b", "y", "a">>))  \* U+3073 BI + U+3083 SMALL YA
 @@ (<<12403, 12421>> :> Rom(<<"b", "y", "u">>))  \* U+3073 BI + U+3085 SMALL YU
 @@ (<<12403, 12423>> :> Rom(<<"b", "y", "o">>))  \* U+3073 BI + U+3087 SMALL YO
 @@ (<<12404, 12419>> :> Rom(<<"p", "y", "a">>))  \* U+3074 PI + U+3083 SMALL YA
 @@ (<<12404, 12421>> :> Rom(<<"p", "y", "u">>))  \* U+3074 PI + U+3085 SMALL YU
 @@ (<<12404, 12423>> :> Rom(<<"p", "y", "o">>))  \* U+3074 PI + U+3087 SMALL YO
 @@ (<<12415, 12419>> :> Rom(<<"m", "y", "a">>))  \* U+307F MI + U+3083 SMALL YA
 @@ (<<12415, 12421>> :> Rom(<<"m", "y", "u">>))  \* U+307F MI + U+3085 SMALL YU
 @@ (<<12415, 12423>> :> Rom(<<"m", "y", "o">>))  \* U+307F MI + U+3087 SMALL YO
 @@ (<<12426, 12419>> :> Rom(<<"r", "y", "a">>))  \* U+308A RI + U+3083 SMALL YA
 @@ (<<12426, 12421>> :> Rom(<<"r", "y", "u">>))  \* U+308A RI + U+3085 SMALL YU
 @@ (<<12426, 12423>> :> Rom(<<"r", "y", "o">>))  \* U+308A RI + U+3087 SMALL YO

HIRA_MONO ==
    (12354 :> Rom(<<"a">>))  \* U+3042 A
 @@ (12356 :> Rom(<<"i">>))  \* U+3044 I
 @@ (12358 :> Rom(<<"u">>))  \* U+3046 U
 @@ (12360 :> Rom(<<"e">>))  \* U+3048 E
 @@ (12362 :> Rom(<<"o">>))  \* U+304A O
 @@ (12363 :> Rom(<<"k", "a">>))  \* U+304B KA
 @@ (12365 :> Rom(<<"k", "i">>))  \* U+304D KI
 @@ (12367 :> Rom(<<"k", "u">>))  \* U+304F KU
 @@ (12369 :> Rom(<<"k", "e">>))  \* U+3051 KE
 @@ (12371 :> Rom(<<"k", "o">>))  \* U+3053 KO
 @@ (12373 :> Rom(<<"s", "a">>))  \* U+3055 SA
 @@ (12375 :> Rom(<<"s", "h", "i">>))  \* U+3057 SI
 @@ (12377 :> Rom(<<"s", "u">>))  \* U+3059 SU
 @@ (12379 :> Rom(<<"s", "e">>))  \* U+305B SE
 @@ (12381 :> Rom(<<"s", "o">>))  \* U+305D SO
 @@ (12383 :> Rom(<<"t", "a">>))  \* U+305F TA
 @@ (12385 :> Rom(<<"c", "h", "i">>))  \* U+3061 TI
 @@ (12388 :> Rom(<<"t", "s", "u">>))  \* U+3064 TU
 @@ (12390 :> Rom(<<"t", "e">>))  \* U+3066 TE
 @@ (12392 :> Rom(<<"t", "o">>))  \* U+3068 TO
 @@ (12394 :> Rom(<<"n", "a">>))  \* U+306A NA
 @@ (12395 :> Rom(<<"n", "i">>))  \* U+306B NI
 @@ (12396 :> Rom(<<"n", "u">>))  \* U+306C NU
 @@ (12397 :> Rom(<<"n", "e">>))  \* U+306D NE
 @@ (12398 :> Rom(<<"n", "o">>))  \* U+306E NO
 @@ (12399 :> Rom(<<"h", "a">>))  \* U+306F HA
 @@ (12402 :> Rom(<<"h", "i">>))  \* U+3072 HI
 @@ (12405 :> Rom(<<"f", "u">>))  \* U+3075 HU
 @@ (12408 :> Rom(<<"h", "e">>))  \* U+3078 HE
 @@ (12411 :> Rom(<<"h", "o">>))  \* U+307B HO
 @@ (12414 :> Rom(<<"m", "a">>))  \* U+307E MA
 @@ (12415 :> Rom(<<"m", "i">>))  \* U+307F MI
 @@ (12416 :> Rom(<<"m", "u">>))  \* U+3080 MU
 @@ (12417 :> Rom(<<"m", "e">>))  \* U+3081 ME
 @@ (12418 :> Rom(<<"m", "o">>))  \* U+3082 MO
 @@ (12420 :> Rom(<<"y", "a">>))  \* U+3084 YA
 @@ (12422 :> Rom(<<"y", "u">>))  \* U+3086 YU
 @@ (12424 :> Rom(<<"y", "o">>))  \* U+3088 YO
 @@ (12425 :> Rom(<<"r", "a">>))  \* U+3089 RA
 @@ (12426 :> Rom(<<"r", "i">>))  \* U+308A RI
 @@ (12427 :> Rom(<<"r", "u">>))  \* U+308B RU
 @@ (12428 :> Rom(<<"r", "e">>))  \* U+308C RE
 @@ (12429 :> Rom(<<"r", "o">>))  \* U+308D RO
 @@ (12431 :> Rom(<<"w", "a">>))  \* U+308F WA
 @@ (12434 :> Rom(<<"o">>))  \* U+3092 WO
 @@ (12435 :> Rom(<<"n">>))  \* U+3093 N
 @@ (12364 :> Rom(<<"g", "a">>))  \* U+304C GA
 @@ (12366 :> Rom(<<"g", "i">>))  \* U+304E GI
 @@ (12368 :> Rom(<<"g", "u">>))  \* U+3050 GU
 @@ (12370 :> Rom(<<"g", "e">>))  \* U+3052 GE
 @@ (12372 :> Rom(<<"g", "o">>))  \* U+3054 GO
 @@ (12374 :> Rom(<<"z", "a">>))  \* U+3056 ZA
 @@ (12376 :> Rom(<<"j", "i">>))  \* U+3058 ZI
 @@ (12378 :> Rom(<<"z", "u">>))  \* U+305A ZU
 @@ (12380 :> Rom(<<"z", "e">>))  \* U+305C ZE
 @@ (12382 :> Rom(<<"z", "o">>))  \* U+305E ZO
 @@ (12384 :> Rom(<<"d", "a">>))  \* U+3060 DA
 @@ (12386 :> Rom(<<"j", "i">>))  \* U+3062 DI
 @@ (12389 :> Rom(<<"z", "u">>))  \* U+3065 DU
 @@ (12391 :> Rom(<<"d", "e">>))  \* U+3067 DE
 @@ (12393 :> Rom(<<"d", "o">>))  \* U+3069 DO
 @@ (12400 :> Rom(<<"b", "a">>))  \* U+3070 BA
 @@ (12403 :> Rom(<<"b", "i">>))  \* U+3073 BI
 @@ (12406 :> Rom(<<"b", "u">>))  \* U+3076 BU
 @@ (12409 :> Rom(<<"b", "e">>))  \* U+3079 BE
 @@ (12412 :> Rom(<<"b", "o">>))  \* U+307C BO
 @@ (12401 :> Rom(<<"p", "a">>))  \* U+3071 PA
 @@ (12404 :> Rom(<<"p", "i">>))  \* U+3074 PI
 @@ (12407 :> Rom(<<"p", "u">>))  \* U+3077 PU
 @@ (12410 :> Rom(<<"p", "e">>))  \* U+307A PE
 @@ (12413 :> Rom(<<"p", "o">>))  \* U+307D PO
 @@ (12353 :> Rom(<<"a">>))  \* U+3041 SMALL A
 @@ (12355 :> Rom(<<"i">>))  \* U+3043 SMALL I
 @@ (12357 :> Rom(<<"u">>))  \* U+3045 SMALL U
 @@ (12359 :> Rom(<<"e">>))  \* U+3047 SMALL E
 @@ (12361 :> Rom(<<"o">>))  \* U+3049 SMALL O
 @@ (12419 :> Rom(<<"y", "a">>))  \* U+3083 SMALL YA
 @@ (12421 :> Rom(<<"y", "u">>))  \* U+3085 SMALL YU
 @@ (12423 :> Rom(<<"y", "o">>))  \* U+3087 SMALL YO
 @@ (12387 :> Rom(<<>>))  \* U+3063 SMALL TU
 @@ (12540 :> Rom(<<>>))  \* U+30FC PROLONGED SOUND MARK

\* U+3063 HIRAGANA LETTER SMALL TU, the gemination marker (sokuon).
SmallTsu == 12387
\* U+3093 HIRAGANA LETTER N, the moraic nasal.
MoraicNasal == 12435
\* U+30FC KATAKANA-HIRAGANA PROLONGED SOUND MARK (choon).
Choon == 12540

\* ------------------------------------------------- Python's failure modes

\* What a character read yields when the read raises IndexError.
NoChar == -1
\* What a string-valued call yields when an exception escapes it.
Raised == << NoChar >>

\* s[p] of a Python string: indices -len(s) .. len(s)-1 are valid.
CharAt(s, p) ==
    IF p >= 0 /\ p < Len(s) THEN s[p + 1]
    ELSE IF p < 0 /\ p >= -Len(s) THEN s[Len(s) + p + 1]
    ELSE NoChar

\* dict.get(ch, default) on the monograph table.
MonoGet(ch, default) ==
    IF ch \in DOMAIN HIRA_MONO THEN HIRA_MONO[ch] ELSE default

\* str.isalpha() of one character, on the characters the tables produce
\* (ASCII letters and the apostrophe) and the macron vowels.
IsAlpha(c) ==
    \/ c \in 65..90
    \/ c \in 97..122
    \/ c \in {257, 275, 299, 333, 363}

\* str.lower() of one character: ASCII capitals fold, the rest is unchanged.
Lower(c) == IF c \in 65..90 THEN c + 32 ELSE c

\* ------------------------------------------------------------ normalization

KATA_FIRST == 12449   \* 0x30A1
KATA_LAST == 12534    \* 0x30F6
KATA_OFFSET == 96     \* 0x60

\* Mutant: the range test covers the whole katakana block U+30A0..U+30FF.
kata_to_hira_wholeBlock(ch) ==
    IF 12448 <= ch /\ ch <= 12543 THEN ch - KATA_OFFSET ELSE ch

\* Mutant: the offset is written 0x06 instead of 0x60.
kata_to_hira_offset6(ch) ==
    IF KATA_FIRST <= ch /\ ch <= KATA_LAST THEN ch - 6 ELSE ch

kata_to_hira(ch) ==
    IF KATA_FIRST <= ch /\ ch <= KATA_LAST THEN ch - KATA_OFFSET ELSE ch

\* "".join(_kata_to_hira(ch) for ch in text)
Normalize(s) == [k \in 1..Len(s) |-> kata_to_hira(s[k])]

\* ------------------------------------------------------ chunk lookahead

\* Mutant: the peek looks the character up without trying a digraph.
next_romaji_chunk_monoOnly(h, pos) ==
    IF pos >= Len(h) THEN << >>
    ELSE LET ch == CharAt(h, pos)
         IN  IF ch = NoChar THEN Raised ELSE MonoGet(ch, << >>)

\* Mutant: the pair is read without the test pos + 1 < len(hira).
next_romaji_chunk_noBound(h, pos) ==
    IF pos >= Len(h) THEN << >>
    ELSE LET ch == CharAt(h, pos)
             nx == CharAt(h, pos + 1)
         IN  IF ch = NoChar \/ nx = NoChar THEN Raised
             ELSE IF << ch, nx >> \in DOMAIN HIRA_DIGRAPHS
                  THEN HIRA_DIGRAPHS[<< ch, nx >>]
                  ELSE MonoGet(ch, << >>)

next_romaji_chunk(h, pos) ==
    IF pos >= Len(h) THEN << >>
    ELSE LET ch == CharAt(h, pos)
         IN  IF ch = NoChar THEN Raised
             ELSE IF pos + 1 < Len(h)
                  THEN LET nx == CharAt(h, pos + 1)
                       IN  IF nx = NoChar THEN Raised
                           ELSE IF << ch, nx >> \in DOMAIN HIRA_DIGRAPHS
                                THEN HIRA_DIGRAPHS[<< ch, nx >>]
                                ELSE MonoGet(ch, << >>)
                  ELSE MonoGet(ch, << >>)

\* ------------------------------------------------------------ macron pass

\* str.replace(old, new) for a non-empty old: leftmost matches, left to
\* right, non-overlapping.
RECURSIVE StrReplace(_, _, _)
StrReplace(s, old, new) ==
    IF Len(s) < Len(old) THEN s
    ELSE IF SubSeq(s, 1, Len(old)) = old
         THEN new \o StrReplace(SubSeq(s, Len(old) + 1, Len(s)), old, new)
         ELSE << Head(s) >> \o StrReplace(Tail(s), old, new)

\* Mutant: the pair ("ou", o-macron) is missing from the list.
repl_noOu ==
    << << Rom(<<"a", "a">>), Rom(<<"a_">>) >>,
       << Rom(<<"i", "i">>), Rom(<<"i_">>) >>,
       << Rom(<<"u", "u">>), Rom(<<"u_">>) >>,
       << Rom(<<"e", "e">>), Rom(<<"e_">>) >>,
       << Rom(<<"o", "o">>), Rom(<<"o_">>) >> >>

\* The replacement pairs, in the order the loop applies them.
repl ==
    << << Rom(<<"a", "a">>), Rom(<<"a_">>) >>,
       << Rom(<<"i", "i">>), Rom(<<"i_">>) >>,
       << Rom(<<"u", "u">>), Rom(<<"u_">>) >>,
       << Rom(<<"e", "e">>), Rom(<<"e_">>) >>,
       << Rom(<<"o", "o">>), Rom(<<"o_">>) >>,
       << Rom(<<"o", "u">>), Rom(<<"o_">>) >> >>

\* for src, dst in pairs[k..]: s = s.replace(src, dst)
RECURSIVE ReplaceEach(_, _, _)
ReplaceEach(s, pairs, k) ==
    IF k > Len(pairs) THEN s
    ELSE ReplaceEach(StrReplace(s, pairs[k][1], pairs[k][2]), pairs, k + 1)

\* Mutant: the pair ("ou", o-macron) is listed first instead of last.
apply_macrons_ouFirst(basic) ==
    ReplaceEach(basic, << repl[6] >> \o SubSeq(repl, 1, 5), 1)

apply_macrons(basic) == ReplaceEach(basic, repl, 1)

\* "".join(chunks)
RECURSIVE Join(_)
Join(chunks) ==
    IF chunks = << >> THEN << >> ELSE Head(chunks) \o Join(Tail(chunks))

\* --------------------------------------------------------------- inputs

\* Characters the bounded input strings are drawn from: plain kana (u, o,
\* ko, bu), a digraph base and a small yo (ki, small yo), the three special
\* marks, and characters without a table entry (a kanji, the Latin letter
\* o, and katakana VU, whose hiragana form U+3094 has no entry either).
Alphabet ==
    { 12358,    \* U+3046 U
      12362,    \* U+304A O
      12371,    \* U+3053 KO
      12365,    \* U+304D KI
      12423,    \* U+3087 SMALL YO
      12406,    \* U+3076 BU
      MoraicNasal, SmallTsu, Choon,
      28450,    \* U+6F22 (a kanji)
      111,      \* U+006F LATIN SMALL LETTER O
      12532 }   \* U+30F4 KATAKANA LETTER VU

\* All strings over S of length at most n.
RECURSIVE StringsUpTo(_, _)
StringsUpTo(S, n) ==
    IF n = 0 THEN { << >> }
    ELSE LET shorter == StringsUpTo(S, n - 1)
         IN  shorter \cup { Append(s, c) : s \in shorter, c \in S }

\* Every one-character string over the hiragana and katakana blocks
\* (U+3040 .. U+30FF), a few ASCII characters and a kanji.
SingleChars ==
    { << c >> : c \in (12352..12543) \cup {32, 39, 65, 97, 111, 28450} }

\* Every digraph key, in hiragana and in katakana.
DigraphStrings ==
    { << k[1], k[2] >> : k \in DOMAIN HIRA_DIGRAPHS }
        \cup { << k[1] + KATA_OFFSET, k[2] + KATA_OFFSET >> :
                 k \in DOMAIN HIRA_DIGRAPHS }

\* The words the documentation of kana_to_romaji gives as examples.
Shinyou == << 12375, 12435, 12424, 12358 >>           \* shi n yo u
Shinbun == << 12375, 12435, 12406, 12435 >>           \* shi n bu n
Gakkou == << 12364, 12387, 12371, 12358 >>            \* ga (tsu) ko u
Toukyou == << 12392, 12358, 12365, 12423, 12358 >>    \* to u ki (yo) u
Examples == { Shinyou, Shinbun, Gakkou, Toukyou }

\* The five vowel kana a, i, u, e, o, and every string of them up to the
\* bound: the inputs whose romanization holds every doubled vowel.
VowelKana == { 12354, 12356, 12358, 12360, 12362 }
VowelStrings == StringsUpTo(VowelKana, MaxLen)

Inputs ==
    StringsUpTo(Alphabet, MaxLen) \cup SingleChars \cup DigraphStrings
        \cup Examples \cup VowelStrings

\* ---------------------------------------------------------------- state

VARIABLES
    text,              \* the argument
    use_macrons,       \* keyword argument
    use_m_before_bmp,  \* keyword argument
    hira,              \* the normalized string
    i,                 \* the scan cursor (0-based, as in the program)
    result,            \* the list of chunks appended so far
    out,               \* the returned string
    pc                 \* "start", "scan", "done", or "raised"

\* The bulk-card dialog (BulkWordsDialog) and the Card Format dialog it
\* opens (CardFormatDialog).
VARIABLES
    notetype_field_mappings,    \* note type id -> (field name -> role)
    last_selected_notetype_id,  \* a note type id or NoNoteType
    note_type_label,            \* the note type the label names, or NoNoteType
    ok_button_enabled,          \* whether Submit is enabled
    dlg_open,                   \* whether a Card Format dialog is executing
    current_ntid,               \* CardFormatDialog._current_ntid
    field_combos                \* CardFormatDialog: field name -> shown role

dialog ==
    << notetype_field_mappings, last_selected_notetype_id, note_type_label,
       ok_button_enabled, dlg_open, current_ntid, field_combos >>

\* Python's None where a note type id is expected.
NoNoteType == 0

\* An empty dict.
EmptyDict == [ f \in { } |-> "None" ]

\* The state BulkWordsDialog.__init__ leaves: no mapping, no note type,
\* Submit disabled, no Card Format dialog.
DialogConstructed ==
    /\ notetype_field_mappings = EmptyDict
    /\ last_selected_notetype_id = NoNoteType
    /\ note_type_label = NoNoteType
    /\ ok_button_enabled = FALSE
    /\ dlg_open = FALSE
    /\ current_ntid = NoNoteType
    /\ field_combos = EmptyDict

vars ==
    << text, use_macrons, use_m_before_bmp, hira, i, result, out, pc, dialog >>

args == << text, use_macrons, use_m_before_bmp >>

Init ==
    /\ text \in Inputs
    /\ use_macrons \in BOOLEAN
    /\ use_m_before_bmp \in BOOLEAN
    /\ hira = << >>
    /\ i = 0
    /\ result = << >>
    /\ out = << >>
    /\ pc = "start"
    /\ DialogConstructed

\* ------------------------------------------------------------- prelude

\* Mutant: the early return yields a placeholder instead of "".
ReturnEmpty_placeholder ==
    /\ pc = "start"
    /\ text = << >>
    /\ out' = Rom(<<" ">>)
    /\ pc' = "done"
    /\ UNCHANGED << dialog, args, hira, i, result >>

\* if not text: return ""
ReturnEmpty ==
    /\ pc = "start"
    /\ text = << >>
    /\ out' = << >>
    /\ pc' = "done"
    /\ UNCHANGED << dialog, args, hira, i, result >>

\* hira = "".join(...); result = []; i = 0; length = len(hira)
Prelude ==
    /\ pc = "start"
    /\ text # << >>
    /\ hira' = Normalize(text)
    /\ result' = << >>
    /\ i' = 0
    /\ pc' = "scan"
    /\ UNCHANGED << dialog, args, out >>

\* ------------------------------------------------------ the scanning loop

length == Len(hira)

\* ch = hira[i]
ch == CharAt(hira, i)

\* One iteration: the chunks it appends and how far the cursor moves; an
\* exception raised in the iteration ends the call.
Iterate(chunks, step) ==
    IF \E c \in 1..Len(chunks) : chunks[c] = Raised
    THEN /\ pc' = "raised"
         /\ UNCHANGED << dialog, args, hira, i, result, out >>
    ELSE /\ result' = result \o chunks
         /\ i' = i + step
         /\ UNCHANGED << dialog, args, hira, out, pc >>

\* Mutant: the sokuon branch appends the whole lookahead chunk.
sokuon_chunks_whole(h, p) ==
    IF p + 1 < Len(h)
    THEN LET next_chunk == next_romaji_chunk(h, p + 1)
         IN  IF next_chunk = Raised THEN << Raised >>
             ELSE IF next_chunk # << >>
                  THEN IF IsAlpha(CharAt(next_chunk, 0))
                       THEN << next_chunk >> ELSE << >>
                  ELSE << >>
    ELSE << >>

\* The chunks the sokuon branch appends at cursor p.
sokuon_chunks(h, p) ==
    IF p + 1 < Len(h)
    THEN LET next_chunk == next_romaji_chunk(h, p + 1)
         IN  IF next_chunk = Raised THEN << Raised >>
             ELSE IF next_chunk # << >>
                  THEN LET c == CharAt(next_chunk, 0)
                       IN  IF IsAlpha(c) THEN << << c >> >> ELSE << >>
                  ELSE << >>
    ELSE << >>

Sokuon ==
    /\ pc = "scan"
    /\ i < length
    /\ ch = SmallTsu
    /\ Iterate(sokuon_chunks(hira, i), 1)

\* The set of code points of a string literal ("x in 'aeiouy'").
CharsOf(lit) == { Ord(lit[k]) : k \in 1..Len(lit) }

\* Mutant: the vowel test reads "aeiou", without the y.
nasal_chunk_noY(h, p, m_before_bmp) ==
    IF p + 1 >= Len(h) THEN Rom(<<"n">>)
    ELSE LET next_chunk == next_romaji_chunk(h, p + 1)
         IN  IF next_chunk = Raised THEN Raised
             ELSE IF next_chunk = << >> THEN Rom(<<"n">>)
             ELSE LET first == Lower(CharAt(next_chunk, 0))
                  IN  IF first \in CharsOf(<<"a", "e", "i", "o", "u">>)
                      THEN Rom(<<"n", "'">>)
                      ELSE IF first \in CharsOf(<<"b", "m", "p">>)
                           THEN IF m_before_bmp THEN Rom(<<"m">>)
                                ELSE Rom(<<"n">>)
                           ELSE Rom(<<"n">>)

\* Mutant: the flag is consulted in the final else branch as well, so "m"
\* is appended before every consonant.
nasal_chunk_mEverywhere(h, p, m_before_bmp) ==
    IF p + 1 >= Len(h) THEN Rom(<<"n">>)
    ELSE LET next_chunk == next_romaji_chunk(h, p + 1)
         IN  IF next_chunk = Raised THEN Raised
             ELSE IF next_chunk = << >> THEN Rom(<<"n">>)
             ELSE LET first == Lower(CharAt(next_chunk, 0))
                  IN  IF first \in CharsOf(<<"a", "e", "i", "o", "u", "y">>)
                      THEN Rom(<<"n", "'">>)
                      ELSE IF m_before_bmp THEN Rom(<<"m">>)
                           ELSE Rom(<<"n">>)

\* The chunk the moraic-n branch appends at cursor p.
nasal_chunk(h, p, m_before_bmp) ==
    IF p + 1 >= Len(h) THEN Rom(<<"n">>)
    ELSE LET next_chunk == next_romaji_chunk(h, p + 1)
         IN  IF next_chunk = Raised THEN Raised
             ELSE IF next_chunk = << >> THEN Rom(<<"n">>)
             ELSE LET first == Lower(CharAt(next_chunk, 0))
                  IN  IF first \in CharsOf(<<"a", "e", "i", "o", "u", "y">>)
                      THEN Rom(<<"n", "'">>)
                      ELSE IF first \in CharsOf(<<"b", "m", "p">>)
                           THEN IF m_before_bmp THEN Rom(<<"m">>)
                                ELSE Rom(<<"n">>)
                           ELSE Rom(<<"n">>)

MoraicN ==
    /\ pc = "scan"
    /\ i < length
    /\ ch # SmallTsu
    /\ ch = MoraicNasal
    /\ Iterate(<< nasal_chunk(hira, i, use_m_before_bmp) >>, 1)

\* Mutant: the bound test reads i + 2 < length.
digraph_at_offByOne(h, p) ==
    /\ p + 2 < Len(h)
    /\ << CharAt(h, p), CharAt(h, p + 1) >> \in DOMAIN HIRA_DIGRAPHS

\* if i + 1 < length: pair = ch + hira[i + 1]; if pair in _HIRA_DIGRAPHS
digraph_at(h, p) ==
    /\ p + 1 < Len(h)
    /\ << CharAt(h, p), CharAt(h, p + 1) >> \in DOMAIN HIRA_DIGRAPHS

\* Mutant: the digraph branch advances the cursor by 1.
Digraph_advance1 ==
    /\ pc = "scan"
    /\ i < length
    /\ ch \notin { SmallTsu, MoraicNasal }
    /\ digraph_at(hira, i)
    /\ Iterate(<< HIRA_DIGRAPHS[<< ch, CharAt(hira, i + 1) >>] >>, 1)

Digraph ==
    /\ pc = "scan"
    /\ i < length
    /\ ch \notin { SmallTsu, MoraicNasal }
    /\ digraph_at(hira, i)
    /\ Iterate(<< HIRA_DIGRAPHS[<< ch, CharAt(hira, i + 1) >>] >>, 2)

\* Index of the last vowel letter of a chunk, scanning backward from idx;
\* -1 when there is none.
RECURSIVE LastVowel(_, _)
LastVowel(last, idx) ==
    IF idx < 0 THEN -1
    ELSE IF CharAt(last, idx) \in CharsOf(<<"a", "e", "i", "o", "u">>)
         THEN idx
         ELSE LastVowel(last, idx - 1)

\* Mutant: the choon branch appends the whole last chunk again.
choon_chunks_wholeChunk(res) ==
    IF res # << >>
    THEN LET last == res[Len(res)]
             idx == LastVowel(last, Len(last) - 1)
         IN  IF idx >= 0 THEN << last >> ELSE << >>
    ELSE << >>

\* Mutant: the backward scan runs over the whole joined buffer instead of
\* the last chunk.
choon_chunks_wholeBuffer(res) ==
    IF res # << >>
    THEN LET last == Join(res)
             idx == LastVowel(last, Len(last) - 1)
         IN  IF idx >= 0 THEN << << CharAt(last, idx) >> >> ELSE << >>
    ELSE << >>

\* The chunks the choon branch appends to the chunk list res.
choon_chunks(res) ==
    IF res # << >>
    THEN LET last == res[Len(res)]
             idx == LastVowel(last, Len(last) - 1)
         IN  IF idx >= 0 THEN << << CharAt(last, idx) >> >> ELSE << >>
    ELSE << >>

ChoonMark ==
    /\ pc = "scan"
    /\ i < length
    /\ ch \notin { SmallTsu, MoraicNasal }
    /\ ~digraph_at(hira, i)
    /\ ch = Choon
    /\ Iterate(choon_chunks(result), 1)

\* Mutant: the lookup defaults to "" and an unknown character is dropped.
mono_chunk_dropUnknown(c) == MonoGet(c, << >>)

\* Mutant: the branch appends ch instead of rom.
mono_chunk_appendsCh(c) == << c >>

\* rom = _HIRA_MONO.get(ch); if rom is None: rom = ch
mono_chunk(c) ==
    IF c \in DOMAIN HIRA_MONO THEN HIRA_MONO[c] ELSE << c >>

Mono ==
    /\ pc = "scan"
    /\ i < length
    /\ ch \notin { SmallTsu, MoraicNasal, Choon }
    /\ ~digraph_at(hira, i)
    /\ Iterate(<< mono_chunk(ch) >>, 1)

\* basic = "".join(result); return _apply_macrons(basic) or basic
Finish ==
    /\ pc = "scan"
    /\ i >= length
    /\ out' = IF use_macrons THEN apply_macrons(Join(result)) ELSE Join(result)
    /\ pc' = "done"
    /\ UNCHANGED << dialog, args, hira, i, result >>

Next ==
    \/ ReturnEmpty
    \/ Prelude
    \/ Sokuon
    \/ MoraicN
    \/ Digraph
    \/ ChoonMark
    \/ Mono
    \/ Finish

Spec == Init /\ [][Next]_vars

\* ------------------------------------------------- the bulk-card dialog

\* The roles a field can be mapped to, "None" first.
CARD_FIELD_OPTIONS ==
    << "None", "Expression", "Reading", "Romaji", "Glossary",
       "Glossary 2 (If Available)", "Glossary 3 (If Available)", "Audio" >>

Roles == { CARD_FIELD_OPTIONS[k] : k \in 1..Len(CARD_FIELD_OPTIONS) }

\* The collection's note types (mw.col.models.all()): their ids, and the
\* field names of each.
NoteTypeFields == (1 :> { "Front", "Back" }) @@ (2 :> { "Word" })

NoteTypes == DOMAIN NoteTypeFields

\* No call of kana_to_romaji is in progress while the dialogs are used.
NoCall ==
    /\ text = << >>
    /\ use_macrons = FALSE
    /\ use_m_before_bmp = FALSE
    /\ hira = << >>
    /\ i = 0
    /\ result = << >>
    /\ out = << >>
    /\ pc = "idle"

kana == << args, hira, i, result, out, pc >>

DialogInit == DialogConstructed /\ NoCall

\* dict.get(key) or {}
GetOrEmpty(d, key) == IF key \in DOMAIN d THEN d[key] ELSE EmptyDict

\* d with d[key] = value
DictSet(d, key, value) ==
    [ k \in DOMAIN d \cup { key } |-> IF k = key THEN value ELSE d[k] ]

\* _save_current_mapping: the shared dict after the call. Every role text,
\* "None" included, is a non-empty string, so every shown field is saved.
save_current_mapping(maps, ntid, combos) ==
    IF ntid = NoNoteType \/ DOMAIN combos = { } THEN maps
    ELSE LET kept == { f \in DOMAIN combos : combos[f] # "" }
             mapping == [ f \in kept |-> combos[f] ]
         IN  DictSet(maps, ntid, mapping)

\* _build_fields_for_notetype: one combo per field of the note type,
\* showing the saved role of the field, or "None" (index 0).
build_fields_for_notetype(maps, ntid) ==
    LET existing == GetOrEmpty(maps, ntid)
    IN  [ f \in NoteTypeFields[ntid] |->
            IF f \in DOMAIN existing /\ existing[f] \in Roles
            THEN existing[f] ELSE "None" ]

\* The "Card Format..." button: a CardFormatDialog is constructed on the
\* shared mappings, with the placeholder selected and no fields, and runs.
OpenCardFormat ==
    /\ ~dlg_open
    /\ dlg_open' = TRUE
    /\ current_ntid' = NoNoteType
    /\ field_combos' = EmptyDict
    /\ UNCHANGED << kana, notetype_field_mappings, last_selected_notetype_id,
                    note_type_label, ok_button_enabled >>

\* _on_notetype_changed: the user picks another entry of the note type
\* dropdown (a note type, or the placeholder).
SelectNoteType ==
    /\ dlg_open
    /\ \E ntid \in (NoteTypes \cup { NoNoteType }) \ { current_ntid } :
           LET saved == save_current_mapping(notetype_field_mappings,
                                             current_ntid, field_combos)
           IN  /\ notetype_field_mappings' = saved
               /\ current_ntid' = ntid
               /\ field_combos' =
                      IF ntid = NoNoteType THEN EmptyDict
                      ELSE build_fields_for_notetype(saved, ntid)
    /\ UNCHANGED << kana, last_selected_notetype_id, note_type_label,
                    ok_button_enabled, dlg_open >>

\* The user picks another role in the combo of one field.
SetRole ==
    /\ dlg_open
    /\ \E f \in DOMAIN field_combos : \E r \in Roles \ { field_combos[f] } :
           field_combos' = [ field_combos EXCEPT ![f] = r ]
    /\ UNCHANGED << kana, notetype_field_mappings, last_selected_notetype_id,
                    note_type_label, ok_button_enabled, dlg_open,
                    current_ntid >>

\* OK: _on_ok saves the mapping and accepts; dlg.exec() returns true and
\* _open_card_format_dialog updates the label and the Submit button.
AcceptCardFormat ==
    /\ dlg_open
    /\ LET saved == save_current_mapping(notetype_field_mappings,
                                         current_ntid, field_combos)
           ntid == current_ntid
           mapping == GetOrEmpty(saved, ntid)
       IN  /\ notetype_field_mappings' = saved
           /\ IF ntid # NoNoteType
              THEN /\ last_selected_notetype_id' = ntid
                   /\ note_type_label' = ntid
                   /\ ok_button_enabled' = (DOMAIN mapping # { })
              ELSE /\ last_selected_notetype_id' = NoNoteType
                   /\ note_type_label' = NoNoteType
                   /\ ok_button_enabled' = FALSE
    /\ dlg_open' = FALSE
    /\ current_ntid' = NoNoteType
    /\ field_combos' = EmptyDict
    /\ UNCHANGED kana

\* Cancel: reject; dlg.exec() returns false and the bulk-card dialog is
\* left as it is (mappings saved on a note type change stay saved).
CancelCardFormat ==
    /\ dlg_open
    /\ dlg_open' = FALSE
    /\ current_ntid' = NoNoteType
    /\ field_combos' = EmptyDict
    /\ UNCHANGED << kana, notetype_field_mappings, last_selected_notetype_id,
                    note_type_label, ok_button_enabled >>

DialogNext ==
    \/ OpenCardFormat
    \/ SelectNoteType
    \/ SetRole
    \/ AcceptCardFormat
    \/ CancelCardFormat

DialogSpec == DialogInit /\ [][DialogNext]_vars

\* ------------------------------------------------- the call as a function

\* The loop from cursor p with the chunk list res, as one function: the
\* branches in the order of the loop body, each appending what its action
\* appends.
RECURSIVE scan_loop(_, _, _, _)
scan_loop(h, p, res, m_before_bmp) ==
    IF p >= Len(h) THEN res
    ELSE LET c == CharAt(h, p)
         IN  IF c = SmallTsu
             THEN scan_loop(h, p + 1, res \o sokuon_chunks(h, p), m_before_bmp)
             ELSE IF c = MoraicNasal
             THEN scan_loop(h, p + 1,
                            Append(res, nasal_chunk(h, p, m_before_bmp)),
                            m_before_bmp)
             ELSE IF digraph_at(h, p)
             THEN scan_loop(h, p + 2,
                            Append(res,
                                   HIRA_DIGRAPHS[<< c, CharAt(h, p + 1) >>]),
                            m_before_bmp)
             ELSE IF c = Choon
             THEN scan_loop(h, p + 1, res \o choon_chunks(res), m_before_bmp)
             ELSE scan_loop(h, p + 1, Append(res, mono_chunk(c)), m_before_bmp)

\* kana_to_romaji(text, use_macrons=macrons, use_m_before_bmp=m_before_bmp)
kana_to_romaji(t, macrons, m_before_bmp) ==
    IF t = << >> THEN << >>
    ELSE LET basic == Join(scan_loop(Normalize(t), 0, << >>, m_before_bmp))
         IN  IF macrons THEN apply_macrons(basic) ELSE basic

\* ======================================================================
\* Properties
\* ======================================================================

\* The returned string for a chunk list: the join, macron pass if asked.
Post(s) == IF use_macrons THEN apply_macrons(s) ELSE s

\* c has no monograph entry, neither as written nor as its hiragana form.
NoEntry(c) ==
    /\ c \notin DOMAIN HIRA_MONO
    /\ kata_to_hira(c) \notin DOMAIN HIRA_MONO

\* Chunk k is the single character c, and the returned string is the
\* romanization of the chunks before it, then c, then the romanization of
\* the chunks after it.
PassedThroughAt(c, k) ==
    /\ result[k] = << c >>
    /\ out = Post(Join(SubSeq(result, 1, k - 1))) \o << c >>
                \o Post(Join(SubSeq(result, k + 1, Len(result))))

\* C1 as stated: every input character without a monograph entry appears
\* unchanged in the returned string, between the romanization of what
\* precedes it and of what follows it, under every flag combination.
C1_UnmappedUnchanged ==
    pc = "done" =>
        \A p \in 1..Len(text) :
            NoEntry(text[p]) =>
                \E k \in 1..Len(result) : PassedThroughAt(text[p], k)

\* C1 as amended: when the cursor is at a character of the normalized
\* string that has no monograph entry, the step appends exactly that
\* character as a chunk of its own and advances the cursor by 1 (it is the
\* input character, shifted to hiragana when the input character is in
\* U+30A1..U+30F6); the cursor never jumps over such a character; and the
\* returned string is the join of the chunks, after the macron pass when
\* use_macrons is set.
C1_PassThrough ==
    [][ /\ (pc = "scan" /\ i < length /\ ch \notin DOMAIN HIRA_MONO) =>
            /\ pc' = "scan"
            /\ i' = i + 1
            /\ result' = Append(result,
                   << IF text[i + 1] \in 12449..12534
                      THEN text[i + 1] - 96 ELSE text[i + 1] >>)
        /\ (pc = "scan" /\ i' # i) =>
            /\ i' \in { i + 1, i + 2 }
            /\ i' = i + 2 => hira[i + 2] \in DOMAIN HIRA_MONO
        /\ pc' = "done" =>
            out' = IF use_macrons THEN apply_macrons(Join(result'))
                   ELSE Join(result')
      ]_vars

\* C1 witness: ko, katakana VU, u has been romanized with VU passed
\* through (as hiragana U+3094) between "ko" and "u".
C1_Witness ==
    /\ pc = "done"
    /\ text = << 12371, 12532, 12358 >>
    /\ result = << Rom(<<"k", "o">>), << 12436 >>, Rom(<<"u">>) >>

\* Position j of s starts an occurrence of the two-character pattern old
\* that a leftmost, non-overlapping replacement takes.
RECURSIVE Taken(_, _, _)
Taken(s, old, j) ==
    /\ j >= 1
    /\ j < Len(s)
    /\ s[j] = old[1]
    /\ s[j + 1] = old[2]
    /\ ~Taken(s, old, j - 1)

\* s with every taken occurrence of old replaced by new, position by
\* position.
ReplacedAll(s, old, new) ==
    Join([ j \in 1..Len(s) |->
             IF Taken(s, old, j) THEN new
             ELSE IF Taken(s, old, j - 1) THEN << >>
             ELSE << s[j] >> ])

\* The six replacements of the macron pass, one after another.
SixReplacements(s) ==
    LET s1 == ReplacedAll(s, Rom(<<"a", "a">>), Rom(<<"a_">>))
        s2 == ReplacedAll(s1, Rom(<<"i", "i">>), Rom(<<"i_">>))
        s3 == ReplacedAll(s2, Rom(<<"u", "u">>), Rom(<<"u_">>))
        s4 == ReplacedAll(s3, Rom(<<"e", "e">>), Rom(<<"e_">>))
        s5 == ReplacedAll(s4, Rom(<<"o", "o">>), Rom(<<"o_">>))
    IN  ReplacedAll(s5, Rom(<<"o", "u">>), Rom(<<"o_">>))

\* C2: the returned string is the joined basic romanization when
\* use_macrons is false, and otherwise the result of the six global
\* replacements aa, ii, uu, ee, oo, ou applied in that order, each to the
\* result of the previous one; "oou" becomes o-macron u, "ouu" becomes
\* o u-macron, and to-u-ki-(yo)-u yields "toukyou" or to-macron kyo-macron.
C2_MacronPass ==
    (pc = "done" /\ text # << >>) =>
        LET basic == Join(result)
        IN  /\ ~use_macrons => out = basic
            /\ use_macrons => out = SixReplacements(basic)
            /\ (use_macrons /\ basic = Rom(<<"o", "o", "u">>)) =>
                   out = Rom(<<"o_", "u">>)
            /\ (use_macrons /\ basic = Rom(<<"o", "u", "u">>)) =>
                   out = Rom(<<"o", "u_">>)
            /\ text = Toukyou =>
                   /\ basic = Rom(<<"t", "o", "u", "k", "y", "o", "u">>)
                   /\ use_macrons => out = Rom(<<"t", "o_", "k", "y", "o_">>)

\* C2 witness: the basic romanization "oou" went through the macron pass.
C2_Witness ==
    /\ pc = "done"
    /\ use_macrons
    /\ Join(result) = Rom(<<"o", "o", "u">>)
    /\ out = Rom(<<"o_", "u">>)

\* The chunk C3 prescribes for a moraic nasal at cursor p of h.
NasalRule(h, p, m_before_bmp) ==
    LET lookahead == next_romaji_chunk(h, p + 1)
    IN  IF p = Len(h) - 1 \/ lookahead = << >> THEN Rom(<<"n">>)
        ELSE IF lookahead[1] \in { Ord("a"), Ord("e"), Ord("i"), Ord("o"),
                                   Ord("u"), Ord("y") }
             THEN Rom(<<"n", "'">>)
        ELSE IF lookahead[1] \in { Ord("b"), Ord("m"), Ord("p") }
             THEN IF m_before_bmp THEN Rom(<<"m">>) ELSE Rom(<<"n">>)
        ELSE Rom(<<"n">>)

\* C3: a step with the cursor at the moraic nasal appends exactly one
\* chunk: "n" when the nasal is last or the lookahead chunk is empty, "n'"
\* before a vowel or y, "m" or "n" before b, m, p according to
\* use_m_before_bmp, and "n" otherwise; shi-n-yo-u yields "shin'you" and
\* shi-n-bu-n yields "shimbun" with the flag and "shinbun" without it.
C3_MoraicNasal ==
    [][ /\ (pc = "scan" /\ i < length /\ ch = MoraicNasal) =>
            /\ pc' = "scan"
            /\ i' = i + 1
            /\ result' = Append(result, NasalRule(hira, i, use_m_before_bmp))
        /\ (pc' = "done" /\ ~use_macrons /\ text = Shinyou) =>
            out' = Rom(<<"s", "h", "i", "n", "'", "y", "o", "u">>)
        /\ (pc' = "done" /\ ~use_macrons /\ text = Shinbun) =>
            out' = IF use_m_before_bmp
                   THEN Rom(<<"s", "h", "i", "m", "b", "u", "n">>)
                   ELSE Rom(<<"s", "h", "i", "n", "b", "u", "n">>)
      ]_vars

\* C3 witness: a nasal before bu was just romanized as "m".
C3_Witness ==
    /\ pc = "scan"
    /\ i = 2
    /\ text = Shinbun
    /\ result = << Rom(<<"s", "h", "i">>), Rom(<<"m">>) >>

\* C4: a step with the cursor at the gemination marker advances the cursor
\* by exactly 1 and appends the first character of the lookahead chunk at
\* cursor+1 when that chunk is non-empty, and nothing when it is empty,
\* which is exactly when the marker is last or is followed by a character
\* without a table entry, by another marker or by the long-vowel mark; the
\* following kana is then romanized in full (marker + kana yields the first
\* letter of the kana's romanization followed by all of it), and
\* ga-(tsu)-ko-u yields "gakkou".
C4_Gemination ==
    [][ /\ (pc = "scan" /\ i < length /\ ch = SmallTsu) =>
            LET lookahead == next_romaji_chunk(hira, i + 1)
            IN  /\ pc' = "scan"
                /\ i' = i + 1
                /\ result' = IF lookahead # << >>
                             THEN Append(result, << lookahead[1] >>)
                             ELSE result
                /\ lookahead = << >> <=>
                       \/ i + 1 = length
                       \/ hira[i + 2] \notin DOMAIN HIRA_MONO
                       \/ hira[i + 2] \in { SmallTsu, Choon }
        /\ (pc' = "done" /\ ~use_macrons /\ Len(hira) = 2
              /\ hira[1] = SmallTsu /\ hira[2] \in DOMAIN HIRA_MONO
              /\ hira[2] \notin { SmallTsu, MoraicNasal, Choon }) =>
            out' = << HIRA_MONO[hira[2]][1] >> \o HIRA_MONO[hira[2]]
        /\ (pc' = "done" /\ ~use_macrons /\ text = Gakkou) =>
            out' = Rom(<<"g", "a", "k", "k", "o", "u">>)
      ]_vars

\* C4 witness: the marker before ko has just doubled the k.
C4_Witness ==
    /\ pc = "scan"
    /\ i = 2
    /\ text = Gakkou
    /\ result = << Rom(<<"g", "a">>), Rom(<<"k">>) >>

\* C5: a two-character string that is a digraph key (after normalization)
\* is romanized as the digraph's value, which is not the concatenation of
\* the two monograph values; and a step whose cursor is at the first
\* character of a digraph key appends the digraph's value and advances the
\* cursor by 2.
C5_DigraphPriority ==
    [][ /\ (pc = "scan" /\ i + 1 < length
              /\ << hira[i + 1], hira[i + 2] >> \in DOMAIN HIRA_DIGRAPHS) =>
            /\ pc' = "scan"
            /\ i' = i + 2
            /\ result' = Append(result,
                                HIRA_DIGRAPHS[<< hira[i + 1], hira[i + 2] >>])
        /\ (pc' = "done" /\ Len(hira) = 2
              /\ << hira[1], hira[2] >> \in DOMAIN HIRA_DIGRAPHS) =>
            /\ out' = HIRA_DIGRAPHS[<< hira[1], hira[2] >>]
            /\ out' # HIRA_MONO[hira[1]] \o HIRA_MONO[hira[2]]
      ]_vars

\* C5 witness: katakana ki + small yo has been romanized as "kyo".
C5_Witness ==
    /\ pc = "done"
    /\ text = << 12461, 12519 >>
    /\ i = 2
    /\ out = Rom(<<"k", "y", "o">>)

\* C6: a one-character string whose character is a key of the monograph
\* table (the moraic nasal and the two marks included) is romanized as
\* exactly the table's value, under every flag combination; ka yields "ka",
\* the nasal "n", and the two marks the empty string.
C6_SingleMonograph ==
    (pc = "done" /\ Len(text) = 1 /\ text[1] \in DOMAIN HIRA_MONO) =>
        /\ out = HIRA_MONO[text[1]]
        /\ text[1] = 12363 => out = Rom(<<"k", "a">>)
        /\ text[1] = MoraicNasal => out = Rom(<<"n">>)
        /\ text[1] \in { SmallTsu, Choon } => out = << >>

\* C6 witness: the one-character string shi has been romanized as "shi"
\* with both flags set.
C6_Witness ==
    /\ pc = "done"
    /\ text = << 12375 >>
    /\ use_macrons
    /\ use_m_before_bmp
    /\ out = Rom(<<"s", "h", "i">>)

\* C7: no call raises: no state has an exception escaping; a call that has
\* not returned can run its prelude, or one iteration of the loop while the
\* cursor is inside the normalized string, or has the cursor at the end of
\* it, where the loop exits and the call returns; and what is returned is
\* a string.
C7_NoError ==
    /\ pc # "raised"
    /\ pc = "start" => ENABLED (ReturnEmpty \/ Prelude)
    /\ pc = "scan" =>
           \/ i < length
                /\ ENABLED (Sokuon \/ MoraicN \/ Digraph \/ ChoonMark \/ Mono)
           \/ i = length
    /\ pc = "done" => \A k \in 1..Len(out) : out[k] \in Nat

\* C7 witness: a call on a leading long-vowel mark, a lone small yo and a
\* trailing gemination marker has returned.
C7_Witness ==
    /\ pc = "done"
    /\ text = << Choon, 12423, SmallTsu >>
    /\ out = Rom(<<"y", "o">>)

\* C8: the normalized string has the length of the input, and position by
\* position a character in U+30A1..U+30F6 is replaced by the character 0x60
\* below it, its hiragana equivalent in U+3041..U+3096, and every other
\* character is the input character.
C8_Normalization ==
    pc \in { "scan", "done" } /\ text # << >> =>
        /\ Len(hira) = Len(text)
        /\ \A p \in 1..Len(text) :
               IF text[p] \in 12449..12534
               THEN hira[p] = text[p] - 96 /\ hira[p] \in 12353..12438
               ELSE hira[p] = text[p]

\* C8 witness: katakana ki + small yo was normalized to hiragana ki + small
\* yo.
C8_Witness ==
    /\ pc = "scan"
    /\ text = << 12461, 12519 >>
    /\ hira = << 12365, 12423 >>

\* C9: normalizing the normalized string returns it unchanged, and an input
\* without a character in U+30A1..U+30F6 is its own normalization.
C9_Idempotent ==
    pc \in { "scan", "done" } /\ text # << >> =>
        /\ Normalize(hira) = hira
        /\ (\A p \in 1..Len(text) : text[p] \notin 12449..12534) =>
               hira = text

\* C9 witness: a katakana input has been normalized to a different string.
C9_Witness ==
    /\ pc = "scan"
    /\ text = << 12459 >>
    /\ hira = << 12363 >>
    /\ Normalize(hira) = hira

\* C10: the empty string is romanized as the empty string under all four
\* flag combinations.
C10_Empty ==
    \A m, b \in BOOLEAN :
        (pc = "done" /\ text = << >> /\ use_macrons = m
            /\ use_m_before_bmp = b) => out = << >>

\* C10 witness: the call on the empty string has returned, with use_macrons
\* set and use_m_before_bmp not set.
C10_Witness ==
    /\ pc = "done"
    /\ text = << >>
    /\ use_macrons
    /\ ~use_m_before_bmp
    /\ out = << >>

\* The lowercase vowel letters a, e, i, o, u.
VowelLetters == { 97, 101, 105, 111, 117 }

\* The chunk contains a vowel letter.
HasVowel(chunk) == \E k \in 1..Len(chunk) : chunk[k] \in VowelLetters

\* The last vowel letter of a chunk that has one.
LastVowelOf(chunk) ==
    chunk[CHOOSE k \in 1..Len(chunk) :
              /\ chunk[k] \in VowelLetters
              /\ \A j \in (k + 1)..Len(chunk) : chunk[j] \notin VowelLetters]

\* C11 as stated: a step with the cursor at the long-vowel mark advances the
\* cursor by exactly 1, appends nothing when the output buffer is empty, and
\* whenever the buffer is non-empty appends the last vowel letter of the
\* most recently appended chunk as a new single-letter chunk.
C11_AlwaysProlongs ==
    [][ (pc = "scan" /\ i < length /\ ch = Choon) =>
            /\ pc' = "scan"
            /\ i' = i + 1
            /\ IF result = << >> THEN result' = result
               ELSE /\ HasVowel(result[Len(result)])
                    /\ result' = Append(result,
                                   << LastVowelOf(result[Len(result)]) >>)
      ]_vars

\* C11 as amended: a step with the cursor at the long-vowel mark advances
\* the cursor by exactly 1; when the output buffer is non-empty and its
\* most recently appended chunk contains a vowel letter, the last vowel
\* letter of that chunk is appended as a new single-letter chunk; when the
\* buffer is empty, or that chunk contains no vowel letter, nothing is
\* appended.
C11_LongVowel ==
    [][ (pc = "scan" /\ i < length /\ ch = Choon) =>
            /\ pc' = "scan"
            /\ i' = i + 1
            /\ IF result # << >> /\ HasVowel(result[Len(result)])
               THEN result' = Append(result,
                                << LastVowelOf(result[Len(result)]) >>)
               ELSE result' = result
      ]_vars

\* C11 witness: the mark after ki + small yo has just prolonged the o of
\* "kyo".
C11_Witness ==
    /\ pc = "scan"
    /\ hira = << 12365, 12423, Choon >>
    /\ i = 3
    /\ result = << Rom(<<"k", "y", "o">>), Rom(<<"o">>) >>

\* C12: the cursor is 0 when the loop is entered; every iteration leaves the
\* loop running and moves the cursor forward, by exactly 2 when the
\* characters at the cursor form a digraph key and by exactly 1 otherwise
\* (gemination marker, moraic nasal, long-vowel mark, monograph or
\* pass-through); the cursor never exceeds the length of the normalized
\* string; while it is below that length an iteration is possible; and the
\* call returns only with the cursor equal to that length.
C12_Cursor ==
    [][ /\ (pc = "start" /\ pc' = "scan") => i' = 0
        /\ pc = "scan" =>
            /\ i' >= i
            /\ i <= length
            /\ i' <= length
            /\ i < length =>
                /\ pc' = "scan"
                /\ ENABLED (Sokuon \/ MoraicN \/ Digraph \/ ChoonMark \/ Mono)
                /\ ch \in { SmallTsu, MoraicNasal, Choon } => i' = i + 1
                /\ IF /\ i + 1 < length
                      /\ << hira[i + 1], hira[i + 2] >> \in DOMAIN HIRA_DIGRAPHS
                   THEN i' = i + 2
                   ELSE i' = i + 1
            /\ i = length => pc' = "done" /\ i' = i
        /\ (pc' = "done" /\ text # << >>) => pc = "scan" /\ i' = Len(hira')
      ]_vars

\* C12 witness: the loop over to-u-ki-(yo)-u has ended with the cursor at 5,
\* the length of the string, after four iterations.
C12_Witness ==
    /\ pc = "done"
    /\ text = Toukyou
    /\ i = 5
    /\ Len(result) = 4

\* The character is a mapped kana other than the gemination marker, the
\* moraic nasal and the long-vowel mark.
PlainKana(c) ==
    /\ c \in DOMAIN HIRA_MONO
    /\ c \notin { SmallTsu, MoraicNasal, Choon }

\* C13: at every position of the normalized string that holds a plain
\* mapped kana the lookahead resolver returns the digraph value when the
\* position starts a digraph key and the monograph value otherwise; when
\* the cursor is at such a position the iteration appends exactly the chunk
\* the resolver returns for that position; and an iteration at the
\* gemination marker or the moraic nasal, which peeks at cursor+1, moves the
\* cursor by 1 only, leaves the chunks already in the buffer as they are and
\* adds at most one chunk, so the peeked kana is still romanized in full.
C13_LookaheadAgrees ==
    [][ /\ pc = "scan" =>
            \A p \in 0..(length - 1) :
                PlainKana(hira[p + 1]) =>
                    next_romaji_chunk(hira, p) =
                        IF /\ p + 1 < length
                           /\ << hira[p + 1], hira[p + 2] >>
                                  \in DOMAIN HIRA_DIGRAPHS
                        THEN HIRA_DIGRAPHS[<< hira[p + 1], hira[p + 2] >>]
                        ELSE HIRA_MONO[hira[p + 1]]
        /\ (pc = "scan" /\ i < length /\ PlainKana(ch)) =>
            result' = Append(result, next_romaji_chunk(hira, i))
        /\ (pc = "scan" /\ i < length /\ ch \in { SmallTsu, MoraicNasal }) =>
            /\ i' = i + 1
            /\ hira' = hira
            /\ Len(result') \in { Len(result), Len(result) + 1 }
            /\ SubSeq(result', 1, Len(result)) = result
        /\ (pc = "scan" /\ i > 0 /\ i < length /\ PlainKana(ch)
              /\ hira[i] \in { SmallTsu, MoraicNasal }) =>
            result'[Len(result')] = next_romaji_chunk(hira', i)
      ]_vars

\* C13 witness: after the moraic nasal peeked at ki + small yo, the digraph
\* was appended in full by its own iteration.
C13_Witness ==
    /\ pc = "scan"
    /\ hira = << MoraicNasal, 12365, 12423 >>
    /\ i = 3
    /\ result = << Rom(<<"n">>), Rom(<<"k", "y", "o">>) >>

\* The two-letter sequences the macron pass replaces.
MacronPatterns ==
    { Rom(<<"a", "a">>), Rom(<<"i", "i">>), Rom(<<"u", "u">>),
      Rom(<<"e", "e">>), Rom(<<"o", "o">>), Rom(<<"o", "u">>) }

\* The string s contains the two-letter sequence pat.
Contains(s, pat) ==
    \E j \in 1..(Len(s) - 1) : s[j] = pat[1] /\ s[j + 1] = pat[2]

\* C14: a string returned with use_macrons set contains none of "aa", "ii",
\* "uu", "ee", "oo", "ou", and the macron pass applied to it again returns
\* it unchanged.
C14_MacronFree ==
    (pc = "done" /\ use_macrons) =>
        /\ \A pat \in MacronPatterns : ~Contains(out, pat)
        /\ apply_macrons(out) = out

\* C14 witness: a-a-a was returned as a-macron a, which holds no doubled
\* vowel although its basic romanization "aaa" holds two overlapping ones.
C14_Witness ==
    /\ pc = "done"
    /\ use_macrons
    /\ Join(result) = Rom(<<"a", "a", "a">>)
    /\ out = Rom(<<"a_", "a">>)

\* The string holds a moraic nasal immediately followed by a kana whose
\* romanization begins with b, m or p.
NasalBeforeBMP(h) ==
    \E p \in 1..(Len(h) - 1) :
        /\ h[p] = MoraicNasal
        /\ h[p + 1] \in DOMAIN HIRA_MONO
        /\ HIRA_MONO[h[p + 1]] # << >>
        /\ HIRA_MONO[h[p + 1]][1] \in { Ord("b"), Ord("m"), Ord("p") }

\* C15: for every input and either value of use_macrons, the string
\* returned with use_m_before_bmp set and the one returned with it not set
\* have the same length and differ only at positions where the first has
\* "m" and the second "n"; and they are equal when the normalized input
\* holds no moraic nasal immediately followed by a kana whose romanization
\* begins with b, m or p.
C15_FlagOnlyAtNasal ==
    pc = "done" =>
        LET other == kana_to_romaji(text, use_macrons, ~use_m_before_bmp)
            withM == IF use_m_before_bmp THEN out ELSE other
            withN == IF use_m_before_bmp THEN other ELSE out
        IN  /\ out = kana_to_romaji(text, use_macrons, use_m_before_bmp)
            /\ Len(withM) = Len(withN)
            /\ \A k \in 1..Len(withM) :
                   withM[k] # withN[k] =>
                       withM[k] = Ord("m") /\ withN[k] = Ord("n")
            /\ ~NasalBeforeBMP(Normalize(text)) => withM = withN

\* C15 witness: shi-n-bu-n was returned as "shimbun" with the flag set,
\* where the call without the flag returns "shinbun".
C15_Witness ==
    /\ pc = "done"
    /\ text = Shinbun
    /\ use_m_before_bmp
    /\ ~use_macrons
    /\ out = Rom(<<"s", "h", "i", "m", "b", "u", "n">>)
    /\ kana_to_romaji(text, FALSE, FALSE)
           = Rom(<<"s", "h", "i", "n", "b", "u", "n">>)

\* The string t without its k-th character.
Without(t, k) == SubSeq(t, 1, k - 1) \o SubSeq(t, k + 1, Len(t))

\* The cursor is at a long-vowel mark and the most recently appended chunk
\* holds no vowel letter.
MarkAfterVowelless ==
    /\ pc = "scan"
    /\ i < length
    /\ ch = Choon
    /\ result # << >>
    /\ ~HasVowel(result[Len(result)])

\* A long-vowel mark after a chunk with a vowel letter appends that chunk's
\* last vowel, and a mark directly after such a mark appends one more copy
\* of the same one-letter chunk.
MarksRepeatVowel ==
    (pc = "scan" /\ i < length /\ ch = Choon /\ result # << >>
       /\ HasVowel(result[Len(result)])) =>
        /\ result' = Append(result, << LastVowelOf(result[Len(result)]) >>)
        /\ (i > 0 /\ hira[i] = Choon) =>
               result'[Len(result')] = result[Len(result)]

\* C16 as stated: a long-vowel mark after a chunk without a vowel letter
\* appends nothing and the call returns what it returns for the input
\* without that mark; and each of several consecutive marks after a chunk
\* with a vowel appends one more copy of that vowel.
C16_MarkAsIfAbsent ==
    [][ /\ MarkAfterVowelless =>
            /\ result' = result
            /\ kana_to_romaji(text, use_macrons, use_m_before_bmp)
                 = kana_to_romaji(Without(text, i + 1), use_macrons,
                                  use_m_before_bmp)
        /\ MarksRepeatVowel
      ]_vars

\* C16 as amended: a long-vowel mark after a chunk without a vowel letter
\* appends nothing; when the mark is not immediately preceded by a moraic
\* nasal or a gemination marker (whose lookahead sees the mark), the call
\* returns what it returns for the input without that mark; and each of
\* several consecutive marks after a chunk with a vowel appends one more
\* copy of that vowel.
C16_VowellessMark ==
    [][ /\ MarkAfterVowelless =>
            /\ result' = result
            /\ hira[i] \notin { MoraicNasal, SmallTsu } =>
                   kana_to_romaji(text, use_macrons, use_m_before_bmp)
                     = kana_to_romaji(Without(text, i + 1), use_macrons,
                                      use_m_before_bmp)
        /\ MarksRepeatVowel
      ]_vars

\* C16 witness: in kanji, mark, ko the mark after the passed-through kanji
\* appended nothing and the call returned the kanji followed by "ko", as it
\* does for kanji, ko.
C16_Witness ==
    /\ pc = "done"
    /\ text = << 28450, Choon, 12371 >>
    /\ result = << << 28450 >>, Rom(<<"k", "o">>) >>
    /\ out = kana_to_romaji(<< 28450, 12371 >>, use_macrons, use_m_before_bmp)

\* C17: Submit is enabled only if the last accepted Card Format dialog
\* selected a note type (the one the bulk-card dialog remembers) for which
\* at least one field is mapped to a role other than "None"; with every
\* field left as "None", or with no note type selected, Submit is disabled.
C17_SubmitNeedsRole ==
    ok_button_enabled =>
        /\ last_selected_notetype_id # NoNoteType
        /\ LET mapping == GetOrEmpty(notetype_field_mappings,
                                     last_selected_notetype_id)
           IN  \E f \in DOMAIN mapping : mapping[f] # "None"

====
